---- MODULE Spec2Model ----
(***************************************************************************)
(* The task views of main_app (views.py, forms.py) over the Task and       *)
(* Category tables.  Every request runs in one of the server's workers     *)
(* (Slots); a view that issues several queries is split at each query, so  *)
(* that requests of two workers interleave at query granularity (Django's  *)
(* default autocommit: every query is its own transaction).                *)
(*                                                                         *)
(* Two deployments are specified over the same actions:                    *)
(*   Spec        both workers serve requests concurrently;                 *)
(*   SpecSerial  one worker serves the requests one after the other, and   *)
(*               the responses and the toggle history are logged.          *)
(* Users come from django.contrib.auth and are a fixed set here; register  *)
(* and home touch neither table and are left out.  The list view's two     *)
(* querysets (tasks, categories) are read in one step.  Update and delete  *)
(* are their POST requests; their GET renders a page behind the same       *)
(* test_func.  Ids are never reused (AutoField).                           *)
(***************************************************************************)
EXTENDS Integers, Sequences, FiniteSets, TLC

\* Bounds of the model: how many tasks and categories are ever created.
MaxTasks == 1
MaxCats == 1

Users == {"alice", "bob"}
Slots == {"w1", "w2"}

VARIABLES
    tasks,       \* Task table: id -> row, for the ids that exist
    categories,  \* Category table: id -> row
    nextTaskId,  \* the Task table's auto-increment counter
    nextCatId,   \* the Category table's auto-increment counter
    slot,        \* per worker: the request in flight and its local variables
    creator,     \* history: id -> the actor whose create request made the task
    deploy,      \* the deployment: the workers that serve, and whether it logs
    resp,        \* log: the response emitted by the latest step (NoResponse if none)
    hist         \* log: the run of undisturbed toggles of one task that is under way

store == <<tasks, categories, nextTaskId, nextCatId>>

vars == <<tasks, categories, nextTaskId, nextCatId, slot, creator, deploy, resp, hist>>

----------------------------------------------------------------------------
\* Data

\* Task.category is NULL
NoCategory == 0

\* a date the form parsed to None
NoDate == <<>>

NoTask ==
    [id |-> 0, user |-> "", title |-> "", description |-> "", due_date |-> NoDate,
     priority |-> "", category |-> NoCategory, completed |-> FALSE]

Idle == [pc |-> "idle", actor |-> "", pk |-> 0, obj |-> NoTask, total |-> 0]

NoResponse ==
    [op |-> "", actor |-> "", pk |-> 0, query |-> <<>>, status |-> "", rows |-> {},
     cats |-> {}, counts |-> <<>>]

\* no run of toggles is under way
NoHistory == [pk |-> 0, orig |-> FALSE, n |-> 0]

Response(op, actor, pk, status) ==
    [NoResponse EXCEPT !.op = op, !.actor = actor, !.pk = pk, !.status = status]

\* the ids a request may name: those that can exist, and one that never does
TaskIds == 1..(MaxTasks + 1)

----------------------------------------------------------------------------
\* Query parameters are strings (sequences of characters) or missing

NoParam == [present |-> FALSE, text |-> <<>>]

Param(text) == [present |-> TRUE, text |-> text]

\* Python truthiness of request.GET.get(...): None and '' are false
Truthy(p) == p.present /\ p.text # <<>>

Digits == {"0", "1", "2", "3", "4", "5", "6", "7", "8", "9"}

DigitValue(c) ==
    CASE c = "0" -> 0 [] c = "1" -> 1 [] c = "2" -> 2 [] c = "3" -> 3 [] c = "4" -> 4
      [] c = "5" -> 5 [] c = "6" -> 6 [] c = "7" -> 7 [] c = "8" -> 8 [] c = "9" -> 9

RECURSIVE StripLeft(_)
StripLeft(s) == IF s # <<>> /\ Head(s) = " " THEN StripLeft(Tail(s)) ELSE s

RECURSIVE StripRight(_)
StripRight(s) ==
    IF s # <<>> /\ s[Len(s)] = " " THEN StripRight(SubSeq(s, 1, Len(s) - 1)) ELSE s

RECURSIVE DecimalValue(_)
DecimalValue(s) ==
    IF s = <<>> THEN 0
    ELSE 10 * DecimalValue(SubSeq(s, 1, Len(s) - 1)) + DigitValue(s[Len(s)])

\* int(value) as the id field's get_prep_value applies it to a lookup value:
\* surrounding blanks and one sign are accepted, anything else is a ValueError
IntParse(s) ==
    LET t == StripRight(StripLeft(s))
        signed == t # <<>> /\ Head(t) \in {"+", "-"}
        d == IF signed THEN Tail(t) ELSE t
    IN  IF d # <<>> /\ \A i \in 1..Len(d) : d[i] \in Digits
        THEN [ok |-> TRUE,
              value |-> IF signed /\ Head(t) = "-" THEN 0 - DecimalValue(d)
                        ELSE DecimalValue(d)]
        ELSE [ok |-> FALSE, value |-> 0]

----------------------------------------------------------------------------
\* Querysets

\* Task.objects.filter(user=u), as the set of ids
TaskIdsOf(u) == {i \in DOMAIN tasks : tasks[i].user = u}

\* Category.objects.filter(user=u), as the set of ids
CategoriesOf(u) == {c \in DOMAIN categories : categories[c].user = u}

Rows(ids) == {tasks[i] : i \in ids}

\* Model.save() on a loaded instance: UPDATE of every column WHERE id = pk,
\* and an INSERT of the instance when the UPDATE matched no row
Save(obj) == [i \in DOMAIN tasks \cup {obj.id} |-> IF i = obj.id THEN obj ELSE tasks[i]]

\* Model.delete(): DELETE WHERE id = pk
Delete(pk) == [i \in DOMAIN tasks \ {pk} |-> tasks[i]]

----------------------------------------------------------------------------
\* forms.py

\* Options of the Task model's fields that the form inherits
TitleBlank == FALSE
CategoryBlank == TRUE
DueDateBlank == TRUE
CompletedDefault == FALSE

\* DateField.to_python on the submitted text
ParseDate(text) ==
    CASE text = "" -> [ok |-> DueDateBlank, value |-> NoDate]
      [] text = "2024-05-01" -> [ok |-> TRUE, value |-> <<2024, 5, 1>>]
      [] OTHER -> [ok |-> FALSE, value |-> NoDate]

\* mutant of CategoryChoices: the queryset is not narrowed to the user
CategoryChoicesAll(user) == DOMAIN categories

\* TaskForm.__init__: the category field's queryset
CategoryChoices(user) == CategoriesOf(user)

\* ModelChoiceField.to_python and validation against the field's queryset
CleanCategory(user, text) ==
    IF text = <<>> THEN [ok |-> CategoryBlank, value |-> NoCategory]
    ELSE LET n == IntParse(text)
         IN  IF n.ok /\ n.value \in CategoryChoices(user)
             THEN [ok |-> TRUE, value |-> n.value]
             ELSE [ok |-> FALSE, value |-> NoCategory]

\* TaskForm.Meta.fields: the submitted keys the form reads
FormFields == {"title", "description", "due_date", "priority", "category"}

\* TaskForm(data, user=user).is_valid() and its cleaned_data
TaskFormClean(user, data) ==
    LET d == ParseDate(data.due_date)
        c == CleanCategory(user, data.category)
    IN  [ok |-> (TitleBlank \/ data.title # "") /\ d.ok /\ c.ok,
         title |-> data.title, description |-> data.description,
         due_date |-> d.value, priority |-> data.priority, category |-> c.value]

\* construct_instance: the form's fields, and only those, are written to the instance
ConstructInstance(obj, cleaned) ==
    [f \in DOMAIN obj |-> IF f \in FormFields THEN cleaned[f] ELSE obj[f]]

\* What a client may submit to the task form (any key, also ones the form ignores)
DigitChar(n) ==
    CASE n = 0 -> "0" [] n = 1 -> "1" [] n = 2 -> "2" [] n = 3 -> "3" [] n = 4 -> "4"
      [] n = 5 -> "5" [] n = 6 -> "6" [] n = 7 -> "7" [] n = 8 -> "8" [] n = 9 -> "9"

IdText(n) == <<DigitChar(n)>>

CategoryInputs == {<<>>, <<"x">>} \cup {IdText(c) : c \in 1..MaxCats}

ValidFields ==
    {[title |-> "Write report", description |-> "", due_date |-> "2024-05-01",
      priority |-> "high", user |-> "bob", completed |-> TRUE],
     [title |-> "Buy milk", description |-> "2 litres", due_date |-> "",
      priority |-> "low", user |-> "alice", completed |-> TRUE]}

InvalidFields ==
    {[title |-> "", description |-> "", due_date |-> "",
      priority |-> "low", user |-> "bob", completed |-> TRUE],
     [title |-> "Call", description |-> "", due_date |-> "tomorrow",
      priority |-> "low", user |-> "alice", completed |-> TRUE]}

WithCategory(f, c) ==
    [k \in DOMAIN f \cup {"category"} |-> IF k = "category" THEN c ELSE f[k]]

TaskInputs ==
    {WithCategory(f, c) : f \in ValidFields, c \in CategoryInputs}
        \cup {WithCategory(f, <<>>) : f \in InvalidFields}

CategoryNames == {"Work", ""}

----------------------------------------------------------------------------
\* views.py: authorization

\* mutant of TestFunc: the test does not compare the owner with the actor
TestFuncAnyUser(a, pk) == IF pk \notin DOMAIN tasks THEN "notfound" ELSE "ok"

\* UserPassesTestMixin.dispatch with test_func: get_object() raises Http404 for
\* a missing pk; a false test is PermissionDenied for an authenticated user
TestFunc(a, pk) ==
    IF pk \notin DOMAIN tasks THEN "notfound"
    ELSE IF tasks[pk].user = a THEN "ok"
    ELSE "forbidden"

\* mutant of ToggleLookup: the task is looked up by pk alone and the owner
\* tested afterwards, as the class-based views do
ToggleLookupThenTest(a, pk) ==
    IF pk \notin DOMAIN tasks THEN "notfound"
    ELSE IF tasks[pk].user = a THEN "ok"
    ELSE "forbidden"

\* get_object_or_404(Task, pk=pk, user=request.user)
ToggleLookup(a, pk) ==
    IF pk \in DOMAIN tasks /\ tasks[pk].user = a THEN "ok" ELSE "notfound"

\* SingleObjectMixin.get_object() in the view's handler
GetObject(pk) == IF pk \in DOMAIN tasks THEN "ok" ELSE "notfound"

----------------------------------------------------------------------------
\* views.py: the list view

\* TaskListView.get_queryset: the ids selected, or the ValueError the category
\* lookup raises for a value that is no number
GetQueryset(u, category, status) ==
    LET base == TaskIdsOf(u)
        n == IntParse(category.text)
        byCategory ==
            IF Truthy(category)
            THEN {i \in base : tasks[i].category # NoCategory /\ tasks[i].category = n.value}
            ELSE base
        byStatus ==
            IF status.present /\ status.text = "completed"
            THEN {i \in byCategory : tasks[i].completed}
            ELSE IF status.present /\ status.text = "pending"
            THEN {i \in byCategory : ~tasks[i].completed}
            ELSE byCategory
    IN  IF Truthy(category) /\ ~n.ok
        THEN [ok |-> FALSE, ids |-> {}]
        ELSE [ok |-> TRUE, ids |-> byStatus]

CategoryParams ==
    {NoParam, Param(<<>>), Param(<<"x">>), Param(<<" ", "1">>)}
        \cup {Param(IdText(c)) : c \in 1..MaxCats}

StatusParams == {NoParam, Param("completed"), Param("pending"), Param("done")}

----------------------------------------------------------------------------
\* Requests

\* The deployments: both workers and no log, or one worker and the log
Concurrent == [workers |-> Slots, log |-> FALSE]

Serial == [workers |-> {"w1"}, log |-> TRUE]

InitStore ==
    /\ tasks = <<>>
    /\ categories = <<>>
    /\ nextTaskId = 1
    /\ nextCatId = 1
    /\ slot = [s \in Slots |-> Idle]
    /\ creator = <<>>
    /\ resp = NoResponse
    /\ hist = NoHistory

Init == InitStore /\ deploy = Concurrent

InitSerial == InitStore /\ deploy = Serial

\* worker s takes a new request; the client of the serial deployment sends it
\* after it has read the response to the one before
Free(s) == s \in deploy.workers /\ slot[s] = Idle /\ resp = NoResponse

\* some worker takes a request that is served in one step
FreeWorker == \E s \in Slots : Free(s)

\* the step's response r and the toggle history h, when the deployment logs
Log(r, h) ==
    /\ resp' = IF deploy.log THEN r ELSE NoResponse
    /\ hist' = IF deploy.log THEN h ELSE NoHistory
    /\ UNCHANGED deploy

\* a write to task pk that is no toggle ends the run of toggles of pk
Forget(pk) == IF hist.pk = pk THEN NoHistory ELSE hist

\* @login_required and LoginRequiredMixin: an anonymous request to any of the
\* protected views is redirected to the login page
LoginRequired ==
    /\ FreeWorker
    /\ Log(Response("login_required", "anonymous", 0, "login"), hist)
    /\ UNCHANGED <<tasks, categories, nextTaskId, nextCatId, slot, creator>>

\* profile: tasks.count()
ProfileTotal(s, a) ==
    /\ Free(s)
    /\ slot' = [slot EXCEPT ![s] = [Idle EXCEPT !.pc = "profile_completed", !.actor = a,
                                                !.total = Cardinality(TaskIdsOf(a))]]
    /\ Log(NoResponse, hist)
    /\ UNCHANGED <<tasks, categories, nextTaskId, nextCatId, creator>>

\* profile: tasks.filter(completed=True).count() and the context it renders,
\* <<total_tasks, completed_tasks, pending_tasks>>
ProfileContext(s) ==
    LET total_tasks == slot[s].total
        completed_tasks == Cardinality({i \in TaskIdsOf(slot[s].actor) : tasks[i].completed})
        pending_tasks == total_tasks - completed_tasks
    IN  <<total_tasks, completed_tasks, pending_tasks>>

ProfileCompleted(s) ==
    /\ slot[s].pc = "profile_completed"
    /\ Log([Response("profile", slot[s].actor, 0, "ok") EXCEPT !.counts = ProfileContext(s)],
           hist)
    /\ slot' = [slot EXCEPT ![s] = Idle]
    /\ UNCHANGED <<tasks, categories, nextTaskId, nextCatId, creator>>

\* TaskListView: the filtered tasks and the actor's categories; the ValueError
\* of get_queryset is a server error
TaskListResponse(a, category, status) ==
    LET q == GetQueryset(a, category, status)
        r == [Response("list", a, 0, "error") EXCEPT !.query = <<category, status>>]
    IN  IF q.ok
        THEN [r EXCEPT !.status = "ok", !.rows = Rows(q.ids), !.cats = CategoriesOf(a)]
        ELSE r

TaskList(a, category, status) ==
    /\ FreeWorker
    /\ Log(TaskListResponse(a, category, status), hist)
    /\ UNCHANGED <<tasks, categories, nextTaskId, nextCatId, slot, creator>>

\* TaskDetailView.dispatch: test_func
DetailTest(s, a, pk) ==
    /\ Free(s)
    /\ LET t == TestFunc(a, pk)
       IN  IF t = "ok"
           THEN /\ slot' = [slot EXCEPT ![s] = [Idle EXCEPT !.pc = "detail_get",
                                                            !.actor = a, !.pk = pk]]
                /\ Log(NoResponse, hist)
           ELSE /\ Log(Response("detail", a, pk, t), hist)
                /\ UNCHANGED slot
    /\ UNCHANGED <<tasks, categories, nextTaskId, nextCatId, creator>>

\* TaskDetailView.get: get_object() and the rendered task
DetailGet(s) ==
    /\ slot[s].pc = "detail_get"
    /\ LET a == slot[s].actor
           pk == slot[s].pk
       IN  Log(IF GetObject(pk) = "ok"
               THEN [Response("detail", a, pk, "ok") EXCEPT !.rows = {tasks[pk]}]
               ELSE Response("detail", a, pk, "notfound"),
               hist)
    /\ slot' = [slot EXCEPT ![s] = Idle]
    /\ UNCHANGED <<tasks, categories, nextTaskId, nextCatId, creator>>

\* mutant of NewInstance: form_valid does not stamp the actor
NewInstanceUnstamped(a, cleaned) ==
    [ConstructInstance(NoTask, cleaned) EXCEPT
        !.id = nextTaskId, !.completed = CompletedDefault]

\* TaskCreateView.form_valid: form.instance.user = self.request.user
NewInstance(a, cleaned) ==
    [ConstructInstance(NoTask, cleaned) EXCEPT
        !.user = a, !.id = nextTaskId, !.completed = CompletedDefault]

\* TaskCreateView.post: the Task table after the form's validation, form_valid
\* and the INSERT (form_invalid writes nothing)
AfterCreate(a, data) ==
    LET cleaned == TaskFormClean(a, data)
    IN  IF cleaned.ok THEN Save(NewInstance(a, cleaned)) ELSE tasks

TaskCreate(a, data) ==
    /\ FreeWorker
    /\ tasks' = AfterCreate(a, data)
    /\ IF TaskFormClean(a, data).ok
       THEN /\ nextTaskId <= MaxTasks
            /\ nextTaskId' = nextTaskId + 1
            /\ creator' = [i \in DOMAIN creator \cup {nextTaskId} |->
                              IF i = nextTaskId THEN a ELSE creator[i]]
            /\ Log(Response("create", a, nextTaskId, "redirect"), hist)
       ELSE /\ Log(Response("create", a, 0, "invalid"), hist)
            /\ UNCHANGED <<nextTaskId, creator>>
    /\ UNCHANGED <<categories, nextCatId, slot>>

\* TaskUpdateView.dispatch: test_func
UpdateTest(s, a, pk) ==
    /\ Free(s)
    /\ LET t == TestFunc(a, pk)
       IN  IF t = "ok"
           THEN /\ slot' = [slot EXCEPT ![s] = [Idle EXCEPT !.pc = "update_get",
                                                            !.actor = a, !.pk = pk]]
                /\ Log(NoResponse, hist)
           ELSE /\ Log(Response("update", a, pk, t), hist)
                /\ UNCHANGED slot
    /\ UNCHANGED <<tasks, categories, nextTaskId, nextCatId, creator>>

\* What the update view's save step reads of the instance it loaded: the
\* columns the form does not bind (construct_instance overwrites the others
\* before the save, and an invalid form saves nothing)
Unbound(obj) == [f \in DOMAIN obj |-> IF f \in FormFields THEN NoTask[f] ELSE obj[f]]

\* TaskUpdateView.post: self.object = self.get_object()
UpdateGet(s) ==
    /\ slot[s].pc = "update_get"
    /\ LET a == slot[s].actor
           pk == slot[s].pk
       IN  IF GetObject(pk) = "ok"
           THEN /\ slot' = [slot EXCEPT ![s].pc = "update_save", ![s].obj = Unbound(tasks[pk])]
                /\ Log(NoResponse, hist)
           ELSE /\ slot' = [slot EXCEPT ![s] = Idle]
                /\ Log(Response("update", a, pk, "notfound"), hist)
    /\ UNCHANGED <<tasks, categories, nextTaskId, nextCatId, creator>>

\* TaskUpdateView.post: the Task table after the form's validation, form_valid
\* and the save of the instance worker s loaded (form_invalid writes nothing)
AfterUpdate(s, data) ==
    LET cleaned == TaskFormClean(slot[s].actor, data)
    IN  IF cleaned.ok THEN Save(ConstructInstance(slot[s].obj, cleaned)) ELSE tasks

UpdateSave(s, data) ==
    /\ slot[s].pc = "update_save"
    /\ tasks' = AfterUpdate(s, data)
    /\ IF TaskFormClean(slot[s].actor, data).ok
       THEN Log(Response("update", slot[s].actor, slot[s].pk, "redirect"), Forget(slot[s].pk))
       ELSE Log(Response("update", slot[s].actor, slot[s].pk, "invalid"), hist)
    /\ slot' = [slot EXCEPT ![s] = Idle]
    /\ UNCHANGED <<categories, nextTaskId, nextCatId, creator>>

\* TaskDeleteView.dispatch: test_func
DeleteTest(s, a, pk) ==
    /\ Free(s)
    /\ LET t == TestFunc(a, pk)
       IN  IF t = "ok"
           THEN /\ slot' = [slot EXCEPT ![s] = [Idle EXCEPT !.pc = "delete_delete",
                                                            !.actor = a, !.pk = pk]]
                /\ Log(NoResponse, hist)
           ELSE /\ Log(Response("delete", a, pk, t), hist)
                /\ UNCHANGED slot
    /\ UNCHANGED <<tasks, categories, nextTaskId, nextCatId, creator>>

\* TaskDeleteView.delete: get_object() and the DELETE
DeleteCommit(s) ==
    /\ slot[s].pc = "delete_delete"
    /\ LET a == slot[s].actor
           pk == slot[s].pk
       IN  IF GetObject(pk) = "ok"
           THEN /\ tasks' = Delete(pk)
                /\ Log(Response("delete", a, pk, "redirect"), Forget(pk))
           ELSE /\ Log(Response("delete", a, pk, "notfound"), hist)
                /\ UNCHANGED tasks
    /\ slot' = [slot EXCEPT ![s] = Idle]
    /\ UNCHANGED <<categories, nextTaskId, nextCatId, creator>>

\* toggle_task_completion: get_object_or_404
ToggleGet(s, a, pk) ==
    /\ Free(s)
    /\ IF ToggleLookup(a, pk) = "ok"
       THEN /\ slot' = [slot EXCEPT ![s] = [Idle EXCEPT !.pc = "toggle_save", !.actor = a,
                                                        !.pk = pk, !.obj = tasks[pk]]]
            /\ Log(NoResponse, hist)
       ELSE /\ Log(Response("toggle", a, pk, "notfound"), hist)
            /\ UNCHANGED slot
    /\ UNCHANGED <<tasks, categories, nextTaskId, nextCatId, creator>>

\* mutant of Toggled: the view marks the task completed instead of flipping it
ToggledCompleted(obj) == [obj EXCEPT !.completed = TRUE]

\* task.completed = not task.completed
Toggled(obj) == [obj EXCEPT !.completed = ~obj.completed]

\* The run of toggles after worker s's toggle commits: the toggle extends the
\* run when the row is as s read it (no write since), and ends it otherwise
Toggles(s) ==
    LET pk == slot[s].pk
    IN  IF pk \in DOMAIN tasks /\ tasks[pk] = slot[s].obj
        THEN IF hist.pk = pk /\ hist.n = 1
             THEN [hist EXCEPT !.n = 2]
             ELSE [pk |-> pk, orig |-> tasks[pk].completed, n |-> 1]
        ELSE NoHistory

\* toggle_task_completion: the flip of the loaded instance and task.save()
ToggleSave(s) ==
    /\ slot[s].pc = "toggle_save"
    /\ tasks' = Save(Toggled(slot[s].obj))
    /\ Log(Response("toggle", slot[s].actor, slot[s].pk, "redirect"), Toggles(s))
    /\ slot' = [slot EXCEPT ![s] = Idle]
    /\ UNCHANGED <<categories, nextTaskId, nextCatId, creator>>

\* category_create (POST): CategoryForm's validation and the INSERT
CategoryCreate(a, name) ==
    /\ FreeWorker
    /\ IF name # ""
       THEN /\ nextCatId <= MaxCats
            /\ categories' = [c \in DOMAIN categories \cup {nextCatId} |->
                                 IF c = nextCatId THEN [name |-> name, user |-> a]
                                 ELSE categories[c]]
            /\ nextCatId' = nextCatId + 1
            /\ Log(Response("category_create", a, 0, "redirect"), hist)
       ELSE /\ Log(Response("category_create", a, 0, "invalid"), hist)
            /\ UNCHANGED <<categories, nextCatId>>
    /\ UNCHANGED <<tasks, nextTaskId, slot, creator>>

\* the client of the serial deployment reads the response
ReadResponse ==
    /\ resp # NoResponse
    /\ resp' = NoResponse
    /\ UNCHANGED <<tasks, categories, nextTaskId, nextCatId, slot, creator, deploy, hist>>

\* The steps of the requests that write: create, update, delete, toggle and
\* category_create
Writes ==
    \/ \E a \in Users, data \in TaskInputs : TaskCreate(a, data)
    \/ \E s \in Slots, a \in Users, pk \in TaskIds : UpdateTest(s, a, pk)
    \/ \E s \in Slots : UpdateGet(s)
    \/ \E s \in Slots, data \in TaskInputs : UpdateSave(s, data)
    \/ \E s \in Slots, a \in Users, pk \in TaskIds : DeleteTest(s, a, pk)
    \/ \E s \in Slots : DeleteCommit(s)
    \/ \E s \in Slots, a \in Users, pk \in TaskIds : ToggleGet(s, a, pk)
    \/ \E s \in Slots : ToggleSave(s)
    \/ \E a \in Users, name \in CategoryNames : CategoryCreate(a, name)

\* The steps of the requests that only read
Reads ==
    \/ LoginRequired
    \/ \E s \in Slots, a \in Users : ProfileTotal(s, a)
    \/ \E s \in Slots : ProfileCompleted(s)
    \/ \E a \in Users, c \in CategoryParams, st \in StatusParams : TaskList(a, c, st)
    \/ \E s \in Slots, a \in Users, pk \in TaskIds : DetailTest(s, a, pk)
    \/ \E s \in Slots : DetailGet(s)

Next == Writes \/ Reads

NextSerial == Writes \/ Reads \/ ReadResponse

\* every view, served by both workers concurrently
Spec == Init /\ [][Next]_vars

\* the writing requests alone, served by both workers concurrently
SpecWrites == Init /\ [][Writes]_vars

\* every view, one request after the other, responses logged
SpecSerial == InitSerial /\ [][NextSerial]_vars

----------------------------------------------------------------------------
\* Properties

TaskOps == {"detail", "update", "delete", "toggle"}

\* the ids that name no task
MissingIds == TaskIds \ DOMAIN tasks

\* the tasks of other users than a
OthersTasks(a) == {i \in DOMAIN tasks : tasks[i].user # a}

\* C1: a detail, update, delete or toggle request on an existing task by an
\* authenticated actor who is not its owner ends Forbidden or NotFound, carries
\* no task, and leaves every Task and Category record as it was.
C1_NonOwnerDenied ==
    [][(/\ resp'.op \in TaskOps
        /\ resp'.pk \in DOMAIN tasks
        /\ tasks[resp'.pk].user # resp'.actor)
       => (/\ resp'.status \in {"forbidden", "notfound"}
           /\ resp'.rows = {}
           /\ UNCHANGED store)]_vars

C1_Witness ==
    /\ resp.op = "delete"
    /\ resp.status = "forbidden"
    /\ resp.pk \in DOMAIN tasks
    /\ tasks[resp.pk].user # resp.actor

\* the text c names the id n
Names(c, n) == IntParse(c).ok /\ IntParse(c).value = n

\* the tasks the claim says the list returns for actor u, category filter c
\* and status filter st
ListedTasks(u, c, st) ==
    {t \in Rows(DOMAIN tasks) :
        /\ t.user = u
        /\ (~c.present \/ c.text = <<>> \/ Names(c.text, t.category))
        /\ (st.present /\ st.text = "completed" => t.completed)
        /\ (st.present /\ st.text = "pending" => ~t.completed)}

\* C2: the list view returns exactly the actor's tasks that pass the category
\* and the status filter, and exactly the actor's categories, whatever the
\* filters are.
C2_ListExact ==
    resp.op = "list" =>
        /\ resp.status = "ok"
        /\ resp.rows = ListedTasks(resp.actor, resp.query[1], resp.query[2])
        /\ resp.cats = CategoriesOf(resp.actor)

\* C2 for the category filters the id lookup accepts: absent, empty, or a number
C2_ListExactForNumbers ==
    (resp.op = "list" /\ (Truthy(resp.query[1]) => IntParse(resp.query[1].text).ok)) =>
        /\ resp.status = "ok"
        /\ resp.rows = ListedTasks(resp.actor, resp.query[1], resp.query[2])
        /\ resp.cats = CategoriesOf(resp.actor)

\* a list with both filters set has returned one task and left another out
C2_Witness ==
    /\ resp.op = "list"
    /\ Truthy(resp.query[1])
    /\ resp.query[2] = Param("completed")
    /\ resp.rows # {}

\* C3: every task that exists is owned by the actor whose create request made
\* it, whatever owner the submitted data named and whatever requests followed.
C3_OwnerIsCreator ==
    \A i \in DOMAIN tasks : i \in DOMAIN creator /\ tasks[i].user = creator[i]

\* a task made from data naming bob as owner belongs to alice, its creator,
\* also after a toggle wrote it
C3_Witness ==
    \E i \in DOMAIN tasks :
        /\ tasks[i].title = "Write report"
        /\ tasks[i].user = "alice"
        /\ tasks[i].completed

\* the users to whom the submitted text c names a category of somebody else
Strangers(c) ==
    LET p == IntParse(c)
    IN  IF p.ok /\ p.value \in DOMAIN categories
        THEN Users \ {categories[p.value].user}
        ELSE {}

\* the submitted data with which user a names a category of another user
ForeignInputs(a) == {data \in TaskInputs : a \in Strangers(data.category)}

\* C4: the category of every task is a category of the task's owner, and a
\* create or update that submits a category of another user fails validation
\* and writes nothing.
C4_CategoryOfOwner ==
    /\ \A i \in DOMAIN tasks :
          tasks[i].category # NoCategory =>
              /\ tasks[i].category \in DOMAIN categories
              /\ categories[tasks[i].category].user = tasks[i].user
    /\ \A c \in CategoryInputs : \A a \in Strangers(c) :
          \A data \in {d \in TaskInputs : d.category = c} :
              /\ ~TaskFormClean(a, data).ok
              /\ AfterCreate(a, data) = tasks
              /\ \A s \in Slots :
                    (slot[s].pc = "update_save" /\ slot[s].actor = a)
                        => AfterUpdate(s, data) = tasks

\* a task carries a category of its owner, and the form refuses that category
\* to the other user
C4_Witness ==
    /\ \E i \in DOMAIN tasks :
          /\ tasks[i].category # NoCategory
          /\ tasks[i].title = "Buy milk"
    /\ \E a \in Users : ForeignInputs(a) # {}

\* C5: one undisturbed toggle of a task leaves completed negated, and two of
\* them one after the other leave it as it was before the first.
C5_ToggleInvolution ==
    hist.n > 0 =>
        /\ hist.pk \in DOMAIN tasks
        /\ tasks[hist.pk].completed = (IF hist.n = 1 THEN ~hist.orig ELSE hist.orig)

C5_Witness == hist.n = 2 /\ resp.op = "toggle" /\ resp.status = "redirect"

\* C6: every toggle request that completes negates the stored value of
\* completed, so that n toggles negate it n times and no flip is lost.
C6_NoFlipLost ==
    [][\A s \in Slots :
        (ToggleSave(s) /\ slot[s].pk \in DOMAIN tasks)
            => tasks'[slot[s].pk].completed = ~tasks[slot[s].pk].completed]_vars

\* what the actor sees of the first step of a request on task pk
Outcome(op, a, pk) == IF op = "toggle" THEN ToggleLookup(a, pk) ELSE TestFunc(a, pk)

\* C7: for each of detail, update, delete and toggle, an id of another user's
\* task and an id of no task give the actor the same outcome.
C7_Indistinguishable ==
    \A op \in TaskOps, a \in Users :
        \A i \in OthersTasks(a), j \in MissingIds : Outcome(op, a, i) = Outcome(op, a, j)

\* C7 as amended: toggle answers NotFound in both cases; detail, update and
\* delete answer Forbidden for another user's task and NotFound for no task.
C7_ToggleIndistinguishable ==
    /\ \A a \in Users :
          /\ \A i \in OthersTasks(a) :
                /\ Outcome("toggle", a, i) = "notfound"
                /\ \A op \in TaskOps \ {"toggle"} : Outcome(op, a, i) = "forbidden"
          /\ \A j \in MissingIds, op \in TaskOps : Outcome(op, a, j) = "notfound"
    /\ (resp.op \in TaskOps /\ resp.pk \in OthersTasks(resp.actor))
          => resp.status = (IF resp.op = "toggle" THEN "notfound" ELSE "forbidden")

C7_Witness ==
    /\ resp.op = "toggle"
    /\ resp.status = "notfound"
    /\ resp.pk \in OthersTasks(resp.actor)

\* C8: a task that its owner's delete request removed exists in no later state.
C8_DeleteIsFinal ==
    [][\A i \in 1..(nextTaskId - 1) : i \notin DOMAIN tasks => i \notin DOMAIN tasks']_vars

\* C9: the counts the profile renders are those of one state of the store:
\* total = completed + pending, with no count below zero or above the total.
C9_ProfileConsistent ==
    [][\A s \in Slots :
        ProfileCompleted(s) =>
            LET c == ProfileContext(s)
            IN  c[1] = c[2] + c[3] /\ c[2] >= 0 /\ c[3] >= 0 /\ c[2] <= c[1]]_vars

\* C10: a toggle that completes changes completed of its task and nothing
\* else: no other column of the task, no other task, no category.
C10_ToggleFrame ==
    [][\A s \in Slots :
        (ToggleSave(s) /\ slot[s].pk \in DOMAIN tasks) =>
            /\ DOMAIN tasks' = DOMAIN tasks
            /\ \A i \in DOMAIN tasks, f \in DOMAIN NoTask :
                  (i # slot[s].pk \/ f # "completed") => tasks'[i][f] = tasks[i][f]
            /\ UNCHANGED <<categories, nextTaskId, nextCatId>>]_vars

====
